---------------------------- MODULE Spec2Model ----------------------------
(***************************************************************************)
(* A model of cicd/cli.py, the command-line orchestrator that loads a      *)
(* KEY=VALUE file, renders manifests, applies them to a cluster through    *)
(* oc / the Kubernetes python client / kubectl, and runs Ansible playbooks.*)
(*                                                                         *)
(* Text is modelled as a sequence of one-character strings, a dict as a    *)
(* function whose domain is its key set.  Three specifications share the   *)
(* module: SpecLoader (_load_env_values), SpecApply (apply, oc_login) and  *)
(* SpecRender (render, deploy, rollback, run-playbook).                    *)
(***************************************************************************)
EXTENDS Integers, Sequences, FiniteSets, TLC

VARIABLES
    \* ---- _load_env_values ----
    values_file,   \* the argument: [given |-> BOOLEAN, text |-> file content]
    values,        \* the dict being returned
    lpc,           \* "call" before the function ran, "returned" after
    \* ---- apply / oc_login ----
    acmd,          \* the command of this process: "apply" or "oc_login"
    mdirExists,    \* whether Path(manifests) exists
    mdir,          \* the manifest directory: entry name -> "file" or "dir"
    ocPresent,     \* `which oc` succeeds
    kubectlPresent,\* `which kubectl` succeeds
    apc,           \* position of the process
    idx,           \* index of the next file of the sorted glob
    calls,         \* every tool invocation so far: [tool, target, rc]
    log,           \* the messages printed so far (a set)
    pyRaised,      \* _apply_with_python left through an exception
    exitCode,      \* the process exit status, -1 while running
    \* ---- render / deploy / rollback / run-playbook ----
    source,        \* MANIFEST_DIR: entry name -> "file" or "dir"
    listing,       \* the order in which MANIFEST_DIR.iterdir() yields it
    fs,            \* output directories: dir -> (file name -> content)
    last           \* what the last command did

loaderVars == <<values_file, values, lpc>>
applyVars  == <<acmd, mdirExists, mdir, ocPresent, kubectlPresent, apc, idx,
                calls, log, pyRaised, exitCode>>
renderVars == <<source, listing, fs, last>>
vars == <<loaderVars, applyVars, renderVars>>

-----------------------------------------------------------------------------
(* Bounds of the model *)

\* longest values file, in characters, that SpecLoader enumerates
MaxText == 6
\* most entries a directory holds
MaxFiles == 3
\* largest exit code an external tool returns
MaxExit == 2

-----------------------------------------------------------------------------
(* Generic helpers *)

Min(S) == CHOOSE x \in S : \A y \in S : x <= y
Max(S) == CHOOSE x \in S : \A y \in S : x >= y

\* the empty dict {}
EmptyDict == [k \in {} |-> k]

\* d[k] = v on a dict
SetItem(d, k, v) == [x \in (DOMAIN d) \cup {k} |-> IF x = k THEN v ELSE d[x]]

-----------------------------------------------------------------------------
(* _load_env_values (cli.py 28-42) *)

\* characters str.strip() removes
Whitespace == {" ", "\t", "\n", "\r"}

\* str.splitlines(): a line ends at each "\n"; text after the last "\n" is a
\* line only when it is not empty
RECURSIVE SplitLinesFrom(_, _, _, _)
SplitLinesFrom(s, i, cur, acc) ==
    IF i > Len(s)
    THEN IF cur = <<>> THEN acc ELSE Append(acc, cur)
    ELSE IF s[i] = "\n"
         THEN SplitLinesFrom(s, i + 1, <<>>, Append(acc, cur))
         ELSE SplitLinesFrom(s, i + 1, Append(cur, s[i]), acc)

SplitLines(s) == SplitLinesFrom(s, 1, <<>>, <<>>)

RECURSIVE LStrip(_)
LStrip(s) == IF s # <<>> /\ Head(s) \in Whitespace THEN LStrip(Tail(s)) ELSE s

RECURSIVE RStrip(_)
RStrip(s) ==
    IF s # <<>> /\ s[Len(s)] \in Whitespace
    THEN RStrip(SubSeq(s, 1, Len(s) - 1))
    ELSE s

\* str.strip()
Strip(s) == RStrip(LStrip(s))

\* str.find(c) + 1: the first index of c in s, 0 when absent
RECURSIVE FindFrom(_, _, _)
FindFrom(s, c, i) ==
    IF i > Len(s) THEN 0
    ELSE IF s[i] = c THEN i ELSE FindFrom(s, c, i + 1)

Find(s, c) == FindFrom(s, c, 1)

\* str.rfind(c) + 1: the last index of c in s, 0 when absent
RECURSIVE RFindFrom(_, _, _)
RFindFrom(s, c, i) ==
    IF i < 1 THEN 0
    ELSE IF s[i] = c THEN i ELSE RFindFrom(s, c, i - 1)

RFind(s, c) == RFindFrom(s, c, Len(s))

\* the `continue` test of line 38, on the stripped line
SkipLine(line) == line = <<>> \/ Head(line) = "#" \/ Find(line, "=") = 0

\* a mutation of SplitFirst: line.rsplit("=", 1)
SplitLast(line) ==
    LET i == RFind(line, "=")
    IN  <<SubSeq(line, 1, i - 1), SubSeq(line, i + 1, Len(line))>>

\* line.split("=", 1) of a line that holds an "="
SplitFirst(line) ==
    LET i == Find(line, "=")
    IN  <<SubSeq(line, 1, i - 1), SubSeq(line, i + 1, Len(line))>>

\* the for loop of lines 36-41 from line i on, with the dict built so far
RECURSIVE LoadLines(_, _, _)
LoadLines(lines, i, d) ==
    IF i > Len(lines) THEN d
    ELSE LET line == Strip(lines[i])
         IN  IF SkipLine(line)
             THEN LoadLines(lines, i + 1, d)
             ELSE LET kv == SplitFirst(line)
                  IN  LoadLines(lines, i + 1,
                                SetItem(d, Strip(kv[1]), Strip(kv[2])))

\* _load_env_values(values_file); `not values_file` is the "no path" case
LoadEnvValues(vf) ==
    IF ~vf.given THEN EmptyDict
    ELSE LoadLines(SplitLines(vf.text), 1, EmptyDict)

\* the argument when no --values option is passed
NoFile == [given |-> FALSE, text |-> <<>>]

FileOf(t) == [given |-> TRUE, text |-> t]

\* characters of the values files SpecLoader enumerates
TextAlphabet == {" ", "#", "=", "a", "\n"}

Texts == UNION {[1..n -> TextAlphabet] : n \in 0..MaxText}

LoaderIdle == values_file = NoFile /\ values = EmptyDict /\ lpc = "idle"

LoaderInit ==
    /\ values_file \in {NoFile} \cup {FileOf(t) : t \in Texts}
    /\ values = EmptyDict
    /\ lpc = "call"

\* the call with values_file None: the early return of lines 34-35
LoadNoPath ==
    /\ lpc = "call"
    /\ ~values_file.given
    /\ values' = LoadEnvValues(values_file)
    /\ lpc' = "returned"
    /\ UNCHANGED <<values_file, applyVars, renderVars>>

\* the call with a path: lines 36-42
LoadFromFile ==
    /\ lpc = "call"
    /\ values_file.given
    /\ values' = LoadEnvValues(values_file)
    /\ lpc' = "returned"
    /\ UNCHANGED <<values_file, applyVars, renderVars>>


-----------------------------------------------------------------------------
(* The loader's result stated from the text of the file, without the loop *)

\* the positions of the line ends of text t
LineEnds(t) == {i \in 1..Len(t) : t[i] = "\n"}

\* the number of lines of t
NumLines(t) ==
    IF t = <<>> THEN 0
    ELSE Cardinality(LineEnds(t)) + (IF t[Len(t)] = "\n" THEN 0 ELSE 1)

\* the position of the k-th line end of t; 0 for k = 0, Len(t) + 1 past the last
LineEnd(t, k) ==
    IF k = 0 THEN 0
    ELSE IF k > Cardinality(LineEnds(t)) THEN Len(t) + 1
    ELSE CHOOSE i \in LineEnds(t) :
             Cardinality({j \in LineEnds(t) : j < i}) = k - 1

\* the k-th line of t
LineAt(t, k) == SubSeq(t, LineEnd(t, k - 1) + 1, LineEnd(t, k) - 1)

\* s without its leading and trailing whitespace
Trimmed(s) ==
    LET ns == {i \in 1..Len(s) : s[i] \notin Whitespace}
    IN  IF ns = {} THEN <<>> ELSE SubSeq(s, Min(ns), Max(ns))

\* a trimmed line that contributes a key
WellFormed(t) ==
    /\ t # <<>>
    /\ t[1] # "#"
    /\ \E i \in 1..Len(t) : t[i] = "="

FirstEq(t) == Min({i \in 1..Len(t) : t[i] = "="})

KeyOf(t) == Trimmed(SubSeq(t, 1, FirstEq(t) - 1))

ValueOf(t) == Trimmed(SubSeq(t, FirstEq(t) + 1, Len(t)))

\* the mapping the file's text stands for
ReferenceMapping(t) ==
    LET T(k) == Trimmed(LineAt(t, k))
        W == {k \in 1..NumLines(t) : WellFormed(T(k))}
        K == {KeyOf(T(k)) : k \in W}
    IN  [key \in K |-> ValueOf(T(Max({k \in W : KeyOf(T(k)) = key})))]

\* C5: for every values file the loader returns exactly the reference mapping:
\* trimmed lines, blank / comment / "="-less lines contribute nothing, the other
\* lines split on their first "=", the last occurrence of a key wins, and the
\* mapping is empty when no path is given.
C5_LoaderIsReference ==
    lpc = "returned" =>
        values = (IF values_file.given
                  THEN ReferenceMapping(values_file.text)
                  ELSE EmptyDict)

\* a file with a repeated key, a skipped line and an "=" inside a value
C5_Witness ==
    /\ lpc = "returned"
    /\ values_file.given
    /\ \E k1, k2 \in 1..NumLines(values_file.text) :
          /\ k1 < k2
          /\ WellFormed(Trimmed(LineAt(values_file.text, k1)))
          /\ WellFormed(Trimmed(LineAt(values_file.text, k2)))
          /\ KeyOf(Trimmed(LineAt(values_file.text, k1)))
               = KeyOf(Trimmed(LineAt(values_file.text, k2)))
          /\ ValueOf(Trimmed(LineAt(values_file.text, k1)))
               # ValueOf(Trimmed(LineAt(values_file.text, k2)))
    /\ \E k \in DOMAIN values : Find(values[k], "=") # 0

-----------------------------------------------------------------------------
(* File names and directories *)

\* ord(c) of the characters file names are made of
CharCode(c) ==
    CASE c = "." -> 46
      [] c = "2" -> 50
      [] c = "B" -> 66
      [] c = "a" -> 97
      [] c = "b" -> 98
      [] c = "j" -> 106
      [] c = "l" -> 108
      [] c = "m" -> 109
      [] c = "n" -> 110
      [] c = "s" -> 115
      [] c = "t" -> 116
      [] c = "x" -> 120
      [] c = "y" -> 121

\* a < b on str: the comparison sorted() makes between two paths of one directory
RECURSIVE StrLess(_, _)
StrLess(a, b) ==
    IF b = <<>> THEN FALSE
    ELSE IF a = <<>> THEN TRUE
    ELSE IF Head(a) = Head(b) THEN StrLess(Tail(a), Tail(b))
    ELSE CharCode(Head(a)) < CharCode(Head(b))

\* sorted(S, reverse=True): the names in descending order
RECURSIVE ReverseSortedNames(_)
ReverseSortedNames(S) ==
    IF S = {} THEN <<>>
    ELSE LET m == CHOOSE x \in S : \A y \in S \ {x} : StrLess(y, x)
         IN  <<m>> \o ReverseSortedNames(S \ {m})

\* sorted(S) of a set of names
RECURSIVE SortedNames(_)
SortedNames(S) ==
    IF S = {} THEN <<>>
    ELSE LET m == CHOOSE x \in S : \A y \in S \ {x} : StrLess(x, y)
         IN  <<m>> \o SortedNames(S \ {m})

\* fnmatch(name, "*.y*ml"), case-sensitive as pathlib's glob is on POSIX
GlobYml(name) ==
    \E i \in 1..Len(name) :
        /\ i + 3 <= Len(name)
        /\ name[i] = "."
        /\ name[i + 1] = "y"
        /\ name[Len(name) - 1] = "m"
        /\ name[Len(name)] = "l"

\* sorted(manifest_dir.glob("*.y*ml")) as names; glob yields directories too
SortedGlob(dir) == SortedNames({n \in DOMAIN dir : GlobYml(n)})

EndsWith(s, suf) ==
    /\ Len(suf) <= Len(s)
    /\ SubSeq(s, Len(s) - Len(suf) + 1, Len(s)) = suf

A_YAML    == <<"a", ".", "y", "a", "m", "l">>
B_YML     == <<"b", ".", "y", "m", "l">>
UPPER_B_YAML == <<"B", ".", "y", "a", "m", "l">>
A_YAML_J2 == <<"a", ".", "y", "a", "m", "l", ".", "j", "2">>
DOT_J2    == <<".", "j", "2">>
N_TXT     == <<"n", ".", "t", "x", "t">>
SUB       == <<"s", "u", "b">>

\* the entry names the directories of the model are drawn from
EntryNames == {A_YAML, B_YML, UPPER_B_YAML, A_YAML_J2, DOT_J2, N_TXT, SUB}

\* every directory of at most MaxFiles entries, each a file or a directory
Directories ==
    UNION {[S -> {"file", "dir"}] :
              S \in {T \in SUBSET EntryNames : Cardinality(T) <= MaxFiles}}

-----------------------------------------------------------------------------
(* apply and oc_login (cli.py 49-92, 124-168) *)

\* exit codes an external tool may return
ToolExitCodes == 0..MaxExit

\* the exit status of a python process that ends through an uncaught exception
\* (CalledProcessError and the re-raised error are not click exceptions)
UncaughtExit == 1

NoTarget == <<>>

Call(tool, kind, file, rc) == [tool |-> tool, kind |-> kind, file |-> file, rc |-> rc]

Msg(text, file) == [msg |-> text, file |-> file]

\* a mutation of CheckCallRaises: subprocess.call, which never raises
CallNeverRaises(rc) == FALSE

\* subprocess.check_call raises CalledProcessError on a non-zero return code
CheckCallRaises(rc) == rc # 0

\* a mutation of ApplyStrategy: the python client even when oc is present
AlwaysPython(oc) == "python"

\* the branch of line 156
ApplyStrategy(oc) == IF oc THEN "oc" ELSE "python"

\* whether _kube_login_if_needed raises: lines 63-69 catch every Exception
KubeLoginRaises(credOk) == FALSE

\* a mutation of SubmitRaises: no try/except around create_from_yaml
SubmitUncaught(ok) == ~ok

\* whether a file's submission leaves the loop: lines 133-136 catch every Exception
SubmitRaises(ok) == FALSE

\* yf.open() of line 132, outside the try: raises on a directory
OpenRaises(kind) == kind = "dir"

\* what line 164 hands to kubectl: str(mdir), the whole directory
FallbackTarget(dir) == "dir"

\* a mutation of NextIndex: a file whose submission failed is submitted again
RetryOnFailure(i, ok) == IF ok THEN i + 1 ELSE i

\* the for loop of line 130 moves to the next file whatever the outcome
NextIndex(i, ok) == i + 1

\* the files `kubectl apply -f <dir>` of line 164 submits: the directory's
\* regular files with a manifest extension
KubectlCovers(dir) ==
    {n \in DOMAIN dir :
        /\ dir[n] = "file"
        /\ \/ EndsWith(n, <<".", "y", "a", "m", "l">>)
           \/ EndsWith(n, <<".", "y", "m", "l">>)
           \/ EndsWith(n, <<".", "j", "s", "o", "n">>)}

ApplyIdle ==
    /\ acmd = "none" /\ mdirExists = FALSE /\ mdir = EmptyDict
    /\ ocPresent = FALSE /\ kubectlPresent = FALSE /\ apc = "idle" /\ idx = 0
    /\ calls = <<>> /\ log = {} /\ pyRaised = "no" /\ exitCode = -1

ApplyInit ==
    /\ acmd \in {"apply", "oc_login"}
    /\ mdirExists \in BOOLEAN
    /\ mdir \in (IF acmd = "apply" /\ mdirExists THEN Directories ELSE {EmptyDict})
    /\ ocPresent \in BOOLEAN
    /\ kubectlPresent \in BOOLEAN
    /\ apc = "start"
    /\ idx = 0
    /\ calls = <<>>
    /\ log = {}
    /\ pyRaised = "no"
    /\ exitCode = -1

envVars == <<acmd, mdirExists, mdir, ocPresent, kubectlPresent>>

\* oc_login, lines 72-92
OcLogin ==
    /\ acmd = "oc_login" /\ apc = "start"
    /\ IF ~ocPresent
       THEN /\ log' = log \cup {Msg("oc not found in PATH. Install OpenShift CLI.", NoTarget)}
            /\ exitCode' = 1
            /\ calls' = calls
       ELSE \E rc \in ToolExitCodes :
            /\ calls' = Append(calls, Call("oc", "login", NoTarget, rc))
            /\ IF CheckCallRaises(rc)
               THEN exitCode' = UncaughtExit /\ log' = log
               ELSE /\ exitCode' = 0
                    /\ log' = log \cup {Msg("Logged in with oc.", NoTarget)}
    /\ apc' = "done"
    /\ UNCHANGED <<loaderVars, renderVars, envVars, idx, pyRaised>>

\* apply up to the choice of the strategy, lines 151-159
ApplyStart ==
    /\ acmd = "apply" /\ apc = "start"
    /\ IF ~mdirExists
       THEN /\ log' = log \cup {Msg("Manifests not found", NoTarget)}
            /\ exitCode' = 1
            /\ apc' = "done"
            /\ idx' = idx
       ELSE IF ApplyStrategy(ocPresent) = "oc"
       THEN /\ apc' = "oc" /\ idx' = 1
            /\ UNCHANGED <<log, exitCode>>
       ELSE /\ log' = log \cup {Msg("oc not found, using python client (or kubectl if present)", NoTarget)}
            /\ apc' = "py_login" /\ idx' = 1
            /\ UNCHANGED exitCode
    /\ UNCHANGED <<loaderVars, renderVars, envVars, calls, pyRaised>>

\* one iteration of _apply_with_oc, lines 140-143
OcApplyFile ==
    /\ apc = "oc"
    /\ idx <= Len(SortedGlob(mdir))
    /\ \E rc \in ToolExitCodes :
        /\ calls' = Append(calls, Call("oc", "file", SortedGlob(mdir)[idx], rc))
        /\ IF CheckCallRaises(rc)
           THEN apc' = "done" /\ exitCode' = UncaughtExit /\ idx' = idx
           ELSE apc' = "oc" /\ exitCode' = exitCode /\ idx' = idx + 1
    /\ UNCHANGED <<loaderVars, renderVars, envVars, log, pyRaised>>

\* _apply_with_oc returns, line 168
OcApplyDone ==
    /\ apc = "oc"
    /\ idx > Len(SortedGlob(mdir))
    /\ log' = log \cup {Msg("Apply complete.", NoTarget)}
    /\ exitCode' = 0
    /\ apc' = "done"
    /\ UNCHANGED <<loaderVars, renderVars, envVars, idx, calls, pyRaised>>

\* _kube_login_if_needed and ApiClient(), lines 128-129
PyLogin ==
    /\ apc = "py_login"
    /\ \E credOk \in BOOLEAN, clientOk \in BOOLEAN :
        /\ calls' = Append(calls, Call("pyclient", "login", NoTarget,
                                       IF credOk THEN 0 ELSE 1))
        /\ IF KubeLoginRaises(credOk)
           THEN pyRaised' = "login" /\ apc' = "fallback" /\ log' = log
           ELSE /\ log' = IF credOk THEN log
                          ELSE log \cup {Msg("[warn] kubeconfig not loaded", NoTarget)}
                /\ IF clientOk
                   THEN pyRaised' = pyRaised /\ apc' = "py"
                   ELSE pyRaised' = "ApiClient" /\ apc' = "fallback"
    /\ UNCHANGED <<loaderVars, renderVars, envVars, idx, exitCode>>

\* one iteration of the loop of _apply_with_python, lines 130-136
PyApplyFile ==
    /\ apc = "py"
    /\ idx <= Len(SortedGlob(mdir))
    /\ LET yf == SortedGlob(mdir)[idx]
       IN  IF OpenRaises(mdir[yf])
           THEN /\ pyRaised' = "open" /\ apc' = "fallback"
                /\ UNCHANGED <<calls, log, idx>>
           ELSE \E ok \in BOOLEAN :
                /\ calls' = Append(calls, Call("pyclient", "file", yf,
                                               IF ok THEN 0 ELSE 1))
                /\ IF SubmitRaises(ok)
                   THEN /\ pyRaised' = "submit" /\ apc' = "fallback"
                        /\ UNCHANGED <<log, idx>>
                   ELSE /\ log' = IF ok THEN log ELSE log \cup {Msg("  warn", yf)}
                        /\ idx' = NextIndex(idx, ok)
                        /\ UNCHANGED <<pyRaised, apc>>
    /\ UNCHANGED <<loaderVars, renderVars, envVars, exitCode>>

\* _apply_with_python returns, line 168
PyApplyDone ==
    /\ apc = "py"
    /\ idx > Len(SortedGlob(mdir))
    /\ log' = log \cup {Msg("Apply complete.", NoTarget)}
    /\ exitCode' = 0
    /\ apc' = "done"
    /\ UNCHANGED <<loaderVars, renderVars, envVars, idx, calls, pyRaised>>

\* the except branch with kubectl present, lines 162-164 and 168
FallbackKubectl ==
    /\ apc = "fallback"
    /\ kubectlPresent
    /\ \E rc \in ToolExitCodes :
        /\ calls' = Append(calls, Call("kubectl", FallbackTarget(mdir), NoTarget, rc))
        /\ IF CheckCallRaises(rc)
           THEN exitCode' = UncaughtExit /\ log' = log
           ELSE /\ exitCode' = 0
                /\ log' = log \cup {Msg("Apply complete.", NoTarget)}
    /\ apc' = "done"
    /\ UNCHANGED <<loaderVars, renderVars, envVars, idx, pyRaised>>

\* the except branch without kubectl, lines 165-167: the error is re-raised
FallbackNone ==
    /\ apc = "fallback"
    /\ ~kubectlPresent
    /\ log' = log \cup {Msg("Neither oc nor kubectl available.", NoTarget)}
    /\ exitCode' = UncaughtExit
    /\ apc' = "done"
    /\ UNCHANGED <<loaderVars, renderVars, envVars, idx, calls, pyRaised>>

ApplyNext ==
    \/ OcLogin
    \/ ApplyStart
    \/ OcApplyFile
    \/ OcApplyDone
    \/ PyLogin
    \/ PyApplyFile
    \/ PyApplyDone
    \/ FallbackKubectl
    \/ FallbackNone

-----------------------------------------------------------------------------
(* render, deploy, rollback, run-playbook (cli.py 95-121, 171-235) *)

\* a mutation of Suffix: the extension taken from the first "." of the name
SuffixFromFirstDot(name) ==
    LET i == Find(name, ".")
    IN  IF 1 < i /\ i < Len(name) THEN SubSeq(name, i, Len(name)) ELSE <<>>

\* PurePath.suffix: from the last ".", unless that "." leads or ends the name
Suffix(name) ==
    LET i == RFind(name, ".")
    IN  IF 1 < i /\ i < Len(name) THEN SubSeq(name, i, Len(name)) ELSE <<>>

\* PurePath.stem: the name without its suffix
Stem(name) == SubSeq(name, 1, Len(name) - Len(Suffix(name)))

J2 == <<".", "j", "2">>

\* file contents are sequences of tokens: a literal character or a {{ variable }}
Lit(c) == [t |-> "lit", v |-> <<c>>]
Var(k) == [t |-> "var", v |-> k]

KEY_A == <<"a">>

\* the content of each file of the manifest-source directory
SourceContent(name) ==
    IF name = A_YAML_J2 THEN <<Lit("k"), Var(KEY_A)>>
    ELSE IF name = A_YAML THEN <<Lit("s")>>
    ELSE IF name = DOT_J2 THEN <<Var(KEY_A), Lit("j")>>
    ELSE <<Lit("x"), Var(KEY_A)>>

\* a text as literal tokens
RECURSIVE Lits(_)
Lits(text) == IF text = <<>> THEN <<>> ELSE <<Lit(Head(text))>> \o Lits(Tail(text))

\* jinja2's Template.render(**vars_): each variable replaced by its value, an
\* undefined variable by the empty string
RECURSIVE RenderTemplate(_, _)
RenderTemplate(content, vars_) ==
    IF content = <<>> THEN <<>>
    ELSE LET tok == Head(content)
             out == IF tok.t = "lit" THEN <<tok>>
                    ELSE IF tok.v \in DOMAIN vars_ THEN Lits(vars_[tok.v])
                    ELSE <<>>
         IN  out \o RenderTemplate(Tail(content), vars_)

Write(src, out, content) == [src |-> src, out |-> out, content |-> content]

\* the body of render's loop for one file, lines 110-119
RenderWrite(name, vars_) ==
    IF Suffix(name) = J2
    THEN Write(name, Stem(name), RenderTemplate(SourceContent(name), vars_))
    ELSE Write(name, name, SourceContent(name))

\* a mutation of DeployWrite: templates copied without being rendered
DeployWriteUnrendered(name, vars_) ==
    IF Suffix(name) = J2
    THEN Write(name, Stem(name), SourceContent(name))
    ELSE Write(name, name, SourceContent(name))

\* the body of deploy's loop for one file, lines 199-203
DeployWrite(name, vars_) ==
    IF Suffix(name) = J2
    THEN Write(name, Stem(name), RenderTemplate(SourceContent(name), vars_))
    ELSE Write(name, name, SourceContent(name))

\* the writes of render's loop over MANIFEST_DIR.iterdir(), lines 107-119
RECURSIVE RenderLoop(_, _, _)
RenderLoop(dir, order, vars_) ==
    IF order = <<>> THEN <<>>
    ELSE IF dir[Head(order)] = "dir"
         THEN RenderLoop(dir, Tail(order), vars_)
         ELSE <<RenderWrite(Head(order), vars_)>> \o RenderLoop(dir, Tail(order), vars_)

\* the writes of deploy's loop over MANIFEST_DIR.iterdir(), lines 196-203
RECURSIVE DeployLoop(_, _, _)
DeployLoop(dir, order, vars_) ==
    IF order = <<>> THEN <<>>
    ELSE IF dir[Head(order)] = "dir"
         THEN DeployLoop(dir, Tail(order), vars_)
         ELSE <<DeployWrite(Head(order), vars_)>> \o DeployLoop(dir, Tail(order), vars_)

\* Path.write_text for each write in turn: a later write replaces an earlier one
RECURSIVE ApplyWrites(_, _)
ApplyWrites(files, writes) ==
    IF writes = <<>> THEN files
    ELSE ApplyWrites(SetItem(files, Head(writes).out, Head(writes).content),
                     Tail(writes))

\* str(BUILD_DIR), line 25
BUILD_DIR == <<"b", "u", "i", "l", "d", "/", "m", "a", "n", "i", "f", "e", "s", "t", "s">>

\* another --outdir
OTHER_DIR == <<"o">>

OutDirs == {BUILD_DIR, OTHER_DIR}

MANIFEST_DIR_KEY == <<"m", "a", "n", "i", "f", "e", "s", "t", "_", "d", "i", "r">>

NAMESPACE_KEY == <<"N", "A", "M", "E", "S", "P", "A", "C", "E">>

\* a mutation of DictMerge: the entries of the left dict win
DictMergeLeftWins(left, right) ==
    [k \in (DOMAIN left) \cup (DOMAIN right) |->
        IF k \in DOMAIN left THEN left[k] ELSE right[k]]

\* {**left, **right}: the entries of the right dict win
DictMerge(left, right) ==
    [k \in (DOMAIN left) \cup (DOMAIN right) |->
        IF k \in DOMAIN right THEN right[k] ELSE left[k]]

\* the extravars of lines 206-209
DeployExtraVars(outdir, vars_) ==
    DictMerge(SetItem(EmptyDict, MANIFEST_DIR_KEY, outdir), vars_)

\* a mutation of ExitWith: every failure reported as status 1
ExitOneOnFailure(rc) == IF rc # 0 THEN 1 ELSE 0

\* raise typer.Exit(rc), and the normal return when rc is 0
ExitWith(rc) == rc

\* one call of _run_ansible, lines 171-183
Run(playbook, extravars, seen, rc) ==
    [playbook |-> playbook, extravars |-> extravars, seen |-> seen, rc |-> rc]

\* the values files the commands are given
ValuesFiles ==
    { NoFile,
      FileOf(<<"a", "=", "h">>),
      FileOf(MANIFEST_DIR_KEY \o <<" ", "=", "o", "\n", "a", "=", "h", "i">>) }

\* the --extra-vars of run-playbook: json.loads gives a dict or raises
NoBlob == [given |-> FALSE, valid |-> TRUE, obj |-> EmptyDict]

ExtraVarBlobs ==
    { NoBlob,
      [given |-> TRUE, valid |-> TRUE, obj |-> SetItem(EmptyDict, KEY_A, <<"h">>)],
      [given |-> TRUE, valid |-> FALSE, obj |-> EmptyDict] }

Namespaces == {<<"d">>, <<"p">>}

\* _load_env_values of each of these files
LoadedValues == [vf \in ValuesFiles |-> LoadEnvValues(vf)]

\* the entries of the manifest-source directory
SourceNames == {A_YAML_J2, A_YAML, DOT_J2, N_TXT, SUB}

SourceKind(n) == IF n = SUB THEN "dir" ELSE "file"

SourceDirs ==
    {[n \in S |-> SourceKind(n)] :
        S \in {T \in SUBSET SourceNames : Cardinality(T) <= MaxFiles}}

\* the orders in which iterdir() may list a directory: it promises none; the
\* model takes the ascending and the descending one
Orders(dir) == {SortedNames(DOMAIN dir), ReverseSortedNames(DOMAIN dir)}

NoDir == [exists |-> FALSE, files |-> EmptyDict]

NoCommand ==
    [cmd |-> "none", vf |-> NoFile, outdir |-> <<>>, arg |-> <<>>, parsed |-> TRUE,
     writes |-> <<>>, runs |-> <<>>, exit |-> 0, after |-> "none"]

\* which command, if one of render and deploy, ran just before with the same
\* values file and the same output directory
After(vf, outdir) ==
    IF last.cmd \in {"render", "deploy"} /\ last.vf = vf /\ last.outdir = outdir
    THEN last.cmd ELSE "other"

RenderIdle ==
    /\ source = EmptyDict /\ listing = <<>>
    /\ fs = [d \in OutDirs |-> NoDir] /\ last = NoCommand

RenderInit ==
    /\ source \in SourceDirs
    /\ listing \in Orders(source)
    /\ fs = [d \in OutDirs |-> NoDir]
    /\ last = NoCommand

\* the render command, lines 95-121
Render ==
    \E vf \in ValuesFiles, outdir \in OutDirs :
        LET vars_ == LoadedValues[vf]
            writes == RenderLoop(source, listing, vars_)
        IN  /\ fs' = [fs EXCEPT ![outdir] =
                        [exists |-> TRUE, files |-> ApplyWrites(@.files, writes)]]
            /\ last' = [cmd |-> "render", vf |-> vf, outdir |-> outdir, arg |-> <<>>,
                        parsed |-> TRUE, writes |-> writes, runs |-> <<>>,
                        exit |-> 0, after |-> After(vf, outdir)]
            /\ UNCHANGED <<loaderVars, applyVars, source, listing>>

\* the deploy command, lines 186-213
Deploy ==
    \E vf \in ValuesFiles, rc \in ToolExitCodes :
        LET vars_ == LoadedValues[vf]
            outdir == BUILD_DIR
            writes == DeployLoop(source, listing, vars_)
            files == ApplyWrites(fs[outdir].files, writes)
        IN  /\ fs' = [fs EXCEPT ![outdir] = [exists |-> TRUE, files |-> files]]
            /\ last' = [cmd |-> "deploy", vf |-> vf, outdir |-> outdir, arg |-> <<>>,
                        parsed |-> TRUE, writes |-> writes,
                        runs |-> <<Run("deploy.yml", DeployExtraVars(outdir, vars_),
                                       files, rc)>>,
                        exit |-> ExitWith(rc), after |-> After(vf, outdir)]
            /\ UNCHANGED <<loaderVars, applyVars, source, listing>>

\* the rollback command, lines 216-225
Rollback ==
    \E namespace \in Namespaces, rc \in ToolExitCodes :
        /\ last' = [cmd |-> "rollback", vf |-> NoFile, outdir |-> <<>>,
                    arg |-> namespace, parsed |-> TRUE, writes |-> <<>>,
                    runs |-> <<Run("rollback.yml",
                                   SetItem(EmptyDict, NAMESPACE_KEY, namespace),
                                   EmptyDict, rc)>>,
                    exit |-> ExitWith(rc), after |-> "other"]
        /\ UNCHANGED <<loaderVars, applyVars, source, listing, fs>>

\* the run-playbook command, lines 228-235
RunPlaybook ==
    \E blob \in ExtraVarBlobs, rc \in ToolExitCodes :
        /\ IF blob.given /\ ~blob.valid
           THEN last' = [cmd |-> "run_playbook", vf |-> NoFile, outdir |-> <<>>,
                         arg |-> <<>>, parsed |-> FALSE, writes |-> <<>>,
                         runs |-> <<>>, exit |-> UncaughtExit, after |-> "other"]
           ELSE last' = [cmd |-> "run_playbook", vf |-> NoFile, outdir |-> <<>>,
                         arg |-> <<>>, parsed |-> TRUE, writes |-> <<>>,
                         runs |-> <<Run("site.yml",
                                        IF blob.given THEN blob.obj ELSE EmptyDict,
                                        EmptyDict, rc)>>,
                         exit |-> ExitWith(rc), after |-> "other"]
        /\ UNCHANGED <<loaderVars, applyVars, source, listing, fs>>

RenderNext == Render \/ Deploy \/ Rollback \/ RunPlaybook

LoaderNext == LoadNoPath \/ LoadFromFile

-----------------------------------------------------------------------------
(* Specifications *)

InitLoader == LoaderInit /\ ApplyIdle /\ RenderIdle

InitApply == LoaderIdle /\ ApplyInit /\ RenderIdle

InitRender == LoaderIdle /\ ApplyIdle /\ RenderInit

SpecLoader == InitLoader /\ [][LoaderNext]_vars

SpecApply == InitApply /\ [][ApplyNext]_vars

SpecRender == InitRender /\ [][RenderNext]_vars

-----------------------------------------------------------------------------
(* Claims about apply and oc_login, checked under SpecApply *)

YAML == <<".", "y", "a", "m", "l">>
YML  == <<".", "y", "m", "l">>

\* a YAML file name
IsYamlName(n) == EndsWith(n, YAML) \/ EndsWith(n, YML)

\* the YAML entries of the manifest directory
YamlEntries == {n \in DOMAIN mdir : IsYamlName(n)}

\* the per-file invocations of one tool, in the order they were made
FileCalls(tool) == SelectSeq(calls, LAMBDA c : c.tool = tool /\ c.kind = "file")

\* cs attempts YAML entries in strictly ascending name order, skipping none
AscendingNoSkip(cs) ==
    /\ \A i \in DOMAIN cs : cs[i].file \in YamlEntries
    /\ \A i, j \in DOMAIN cs : i < j => StrLess(cs[i].file, cs[j].file)
    /\ \A i \in DOMAIN cs : \A n \in YamlEntries :
          StrLess(n, cs[i].file) => \E j \in 1..(i - 1) : cs[j].file = n

\* C1: with oc present, apply runs `oc apply` on the YAML files one at a time in
\* ascending filename order, and the first invocation that exits non-zero is the
\* last invocation of the command: no later file is attempted.
C1_OcSequentialFailFast ==
    (acmd = "apply" /\ ocPresent) =>
        /\ \A i \in DOMAIN calls : calls[i].tool = "oc" /\ calls[i].kind = "file"
        /\ AscendingNoSkip(calls)
        /\ \A i \in DOMAIN calls :
              calls[i].rc # 0 => (i = Len(calls) /\ apc = "done")
        /\ (apc = "done" /\ mdirExists /\ \A i \in DOMAIN calls : calls[i].rc = 0)
              => {calls[i].file : i \in DOMAIN calls} = YamlEntries

\* a run where the second of three YAML files fails and the third is never tried
C1_Witness ==
    /\ acmd = "apply" /\ ocPresent /\ apc = "done"
    /\ Len(calls) = 2
    /\ calls[1].rc = 0
    /\ calls[2].rc # 0
    /\ \E n \in YamlEntries : StrLess(calls[2].file, n)

\* C2: when a shell-invoked tool (oc apply, kubectl apply, oc login) exits with a
\* non-zero code c, the command's exit status is c itself; the status is 0 only
\* when every invoked tool succeeded.
C2_ChildExitCodeUnchanged ==
    apc = "done" =>
        /\ \A i \in DOMAIN calls :
              (calls[i].tool \in {"oc", "kubectl"} /\ calls[i].rc # 0)
                  => exitCode = calls[i].rc
        /\ exitCode = 0 =>
              \A i \in DOMAIN calls :
                  calls[i].tool \in {"oc", "kubectl"} => calls[i].rc = 0

\* C3: with oc absent, neither a failed API submission nor a failed credential
\* load stops apply: both are logged as warnings only, and every YAML file is
\* submitted exactly once, in ascending filename order.
C3_PythonBestEffort ==
    (acmd = "apply" /\ ~ocPresent) =>
        /\ pyRaised \notin {"login", "submit"}
        /\ AscendingNoSkip(FileCalls("pyclient"))
        /\ \A i \in DOMAIN calls :
              (calls[i].tool = "pyclient" /\ calls[i].rc # 0) =>
                  IF calls[i].kind = "login"
                  THEN Msg("[warn] kubeconfig not loaded", NoTarget) \in log
                  ELSE Msg("  warn", calls[i].file) \in log
        /\ (apc = "done" /\ mdirExists /\ pyRaised = "no") =>
              /\ {FileCalls("pyclient")[i].file : i \in DOMAIN FileCalls("pyclient")}
                    = YamlEntries
              /\ Len(FileCalls("pyclient")) = Cardinality(YamlEntries)
              /\ exitCode = 0

\* the credential load and the first submission fail, a later file is submitted
C3_Witness ==
    /\ acmd = "apply" /\ ~ocPresent /\ apc = "done" /\ pyRaised = "no"
    /\ exitCode = 0
    /\ Len(calls) >= 3
    /\ calls[1].kind = "login" /\ calls[1].rc # 0
    /\ calls[2].kind = "file" /\ calls[2].rc # 0
    /\ calls[3].kind = "file"

KubectlCalls == {i \in DOMAIN calls : calls[i].tool = "kubectl"}

\* C4: with oc present only per-file oc apply is used; otherwise the API client
\* is used; kubectl runs, once and over the whole directory, only when oc is
\* absent, the API-client path raised and kubectl is present; when kubectl is
\* absent too the command fails, printing that no tool is available, and does
\* not report success.
C4_StrategyOrder ==
    acmd = "apply" =>
        /\ ocPresent =>
              \A i \in DOMAIN calls : calls[i].tool = "oc" /\ calls[i].kind = "file"
        /\ ~ocPresent => \A i \in DOMAIN calls : calls[i].tool # "oc"
        /\ (~ocPresent /\ mdirExists /\ apc \notin {"start", "py_login"}) =>
              (calls # <<>> /\ calls[1].tool = "pyclient")
        /\ \A i \in KubectlCalls :
              /\ ~ocPresent /\ kubectlPresent /\ pyRaised # "no"
              /\ calls[i].kind = "dir"
              /\ KubectlCalls = {i}
        /\ (apc = "done" /\ pyRaised # "no" /\ kubectlPresent) => KubectlCalls # {}
        /\ (apc = "done" /\ pyRaised # "no" /\ ~kubectlPresent) =>
              /\ exitCode # 0
              /\ Msg("Apply complete.", NoTarget) \notin log
              /\ Msg("Neither oc nor kubectl available.", NoTarget) \in log

\* the API client submitted a file, then raised, and there is no kubectl
C4_Witness ==
    /\ acmd = "apply" /\ apc = "done"
    /\ pyRaised = "open" /\ ~kubectlPresent
    /\ Len(FileCalls("pyclient")) >= 1
    /\ exitCode # 0

\* how many times file f was handed to the cluster by `tool`
SubmitsBy(tool, f) ==
    IF tool = "kubectl"
    THEN IF f \in KubectlCovers(mdir) THEN Cardinality(KubectlCalls) ELSE 0
    ELSE Cardinality({i \in DOMAIN calls :
            calls[i].tool = tool /\ calls[i].kind = "file" /\ calls[i].file = f})

Submits(f) == SubmitsBy("oc", f) + SubmitsBy("pyclient", f) + SubmitsBy("kubectl", f)

\* C10 as stated: within one apply every manifest file is submitted at most
\* once, also when the command falls back from the API client to kubectl.
C10_AtMostOnce ==
    acmd = "apply" => \A f \in DOMAIN mdir : Submits(f) <= 1

\* C10 as amended: each strategy submits a file at most once; without a
\* fallback to kubectl a file is submitted at most once; the kubectl fallback
\* applies the whole directory, so every .yaml/.yml file the API client had
\* submitted is submitted a second time, and no file more than twice.
C10_AtMostOncePerStrategy ==
    acmd = "apply" =>
        \A f \in DOMAIN mdir :
            /\ \A tool \in {"oc", "pyclient", "kubectl"} : SubmitsBy(tool, f) <= 1
            /\ KubectlCalls = {} => Submits(f) <= 1
            /\ Submits(f) <= 2
            /\ (KubectlCalls # {} /\ SubmitsBy("pyclient", f) = 1 /\ IsYamlName(f))
                  => Submits(f) = 2

\* a file submitted by the API client and again by the kubectl fallback
C10_Witness ==
    /\ acmd = "apply" /\ apc = "done"
    /\ \E f \in DOMAIN mdir :
          SubmitsBy("pyclient", f) = 1 /\ SubmitsBy("kubectl", f) = 1

-----------------------------------------------------------------------------
(* Claims about render, deploy, rollback and run-playbook, under SpecRender *)

\* the files directly inside the manifest-source directory
SourceFiles == {n \in DOMAIN source : source[n] = "file"}

\* the output name of a source file: a trailing ".j2" is dropped when something
\* precedes it, any other name is kept
OutputName(n) ==
    IF EndsWith(n, J2) /\ Len(n) > Len(J2)
    THEN SubSeq(n, 1, Len(n) - Len(J2))
    ELSE n

WritesOf(n) == {i \in DOMAIN last.writes : last.writes[i].src = n}

C7_RenderDeployAgree ==
    [][ (last'.cmd \in {"render", "deploy"} /\ last'.after \in {"render", "deploy"})
            => /\ ApplyWrites(EmptyDict, last'.writes)
                    = ApplyWrites(EmptyDict, last.writes)
               /\ fs'[last'.outdir] = fs[last'.outdir] ]_vars

\* deploy ran right after render with the same inputs, over a rendered template
C7_Witness ==
    /\ last.cmd = "deploy" /\ last.after = "render"
    /\ KEY_A \in DOMAIN LoadedValues[last.vf]
    /\ \E i \in DOMAIN last.writes : last.writes[i].src = A_YAML_J2

\* the mapping a values file stands for
ValuesOf(vf) == IF vf.given THEN ReferenceMapping(vf.text) ELSE EmptyDict

\* the playbook is run after every source file has been written
RunsAfterRender ==
    /\ Len(last.runs) = 1
    /\ last.runs[1].playbook = "deploy.yml"
    /\ last.runs[1].seen = fs[BUILD_DIR].files
    /\ \A n \in SourceFiles : OutputName(n) \in DOMAIN last.runs[1].seen

\* C8 as stated: deploy runs the playbook only after every source file has been
\* rendered, and the extra variables always hold manifest_dir = the rendered
\* directory together with every key/value of the values mapping.
C8_ExtraVarsHoldDirAndValues ==
    last.cmd = "deploy" =>
        /\ RunsAfterRender
        /\ last.runs[1].extravars[MANIFEST_DIR_KEY] = BUILD_DIR
        /\ \A k \in DOMAIN ValuesOf(last.vf) :
              last.runs[1].extravars[k] = ValuesOf(last.vf)[k]

\* C8 as amended: deploy runs the playbook only after every source file has
\* been rendered; the extra variables are the values mapping plus manifest_dir,
\* which is the rendered directory unless the values file defines a key
\* manifest_dir, whose value then replaces it.
C8_ValuesOverrideDir ==
    last.cmd = "deploy" =>
        /\ RunsAfterRender
        /\ DOMAIN last.runs[1].extravars
              = (DOMAIN ValuesOf(last.vf)) \cup {MANIFEST_DIR_KEY}
        /\ \A k \in DOMAIN ValuesOf(last.vf) :
              last.runs[1].extravars[k] = ValuesOf(last.vf)[k]
        /\ MANIFEST_DIR_KEY \notin DOMAIN ValuesOf(last.vf) =>
              last.runs[1].extravars[MANIFEST_DIR_KEY] = BUILD_DIR

\* a deploy whose values file defines manifest_dir, over a non-empty directory
C8_Witness ==
    /\ last.cmd = "deploy"
    /\ MANIFEST_DIR_KEY \in DOMAIN ValuesOf(last.vf)
    /\ last.runs[1].extravars[MANIFEST_DIR_KEY] # BUILD_DIR
    /\ last.writes # <<>>

=============================================================================
